---------------------------- MODULE Spec2Model ----------------------------
(***************************************************************************)
(* A model of dablenutil: idempotent directory creation (lib.rs, tokio.rs) *)
(* and log rotation / logger initialisation (logging.rs), acting on a      *)
(* small file system, a clock and the process-wide logger slot.            *)
(*                                                                         *)
(* File names and file contents are sequences of one-character strings, so *)
(* that formatting (chrono's strftime) and path joining are computed, not  *)
(* assumed.  A path is a sequence of names relative to the working         *)
(* directory; the empty path is the working directory itself.              *)
(***************************************************************************)
EXTENDS Integers, Sequences, FiniteSets, TLC

VARIABLES fs, now, logger, last, rotations

vars == <<fs, now, logger, last, rotations>>

---------------------------------------------------------------------------
(* Bounds of the model. *)

\* The clock takes the instants 0..MaxTime, two instants to a second.
MaxTime == 1
\* At most this many records are logged through the installed logger.
MaxLog == 1
\* At most this many rotate_logs calls get as far as writing an archive.
MaxRotations == 2

---------------------------------------------------------------------------
(* Strings. *)

LatestLogName == <<"l","a","t","e","s","t",".","l","o","g">>
AppLogName == <<"a","p","p",".","l","o","g">>
LogsName == <<"l","o","g","s">>
SubName == <<"s","u","b">>
DirName == <<"d","i","r">>
DotLog == <<".","l","o","g">>
DotGz == <<".","g","z">>
Underscore == <<"_">>
\* "%Y-%m-%d_%H-%M-%S", the time part of the format string of rotate_logs.
TimestampFormat ==
    <<"%","Y","-","%","m","-","%","d","_","%","H","-","%","M","-","%","S">>

DigitChar(n) ==
    CASE n = 0 -> "0" [] n = 1 -> "1" [] n = 2 -> "2" [] n = 3 -> "3"
      [] n = 4 -> "4" [] n = 5 -> "5" [] n = 6 -> "6" [] n = 7 -> "7"
      [] n = 8 -> "8" [] n = 9 -> "9"

RECURSIVE Digits(_)
\* The decimal digits of a natural number.
Digits(n) ==
    IF n < 10 THEN <<DigitChar(n)>>
    ELSE Digits(n \div 10) \o <<DigitChar(n % 10)>>

RECURSIVE PadLeft(_, _, _)
PadLeft(s, width, c) ==
    IF Len(s) >= width THEN s ELSE PadLeft(<<c>> \o s, width, c)

---------------------------------------------------------------------------
(* The clock: instant n is n half-seconds after 2023-12-31 23:59:59.       *)

CivilTime(n) ==
    LET total == 86399 + (n \div 2)
        sod == total % 86400
        day == total \div 86400
    IN  [Y |-> IF day = 0 THEN 2023 ELSE 2024,
         m |-> IF day = 0 THEN 12 ELSE 1,
         d |-> IF day = 0 THEN 31 ELSE day,
         H |-> sod \div 3600,
         M |-> (sod % 3600) \div 60,
         S |-> sod % 60]

\* One numeric item of a strftime format: the field, padded to its width
\* ("0" by default, " " for the "_" modifier, nothing for "-").
NumericItem(spec, pad, t) ==
    LET value == CASE spec = "Y" -> t.Y [] spec = "m" -> t.m
                   [] spec = "d" -> t.d [] spec = "H" -> t.H
                   [] spec = "M" -> t.M [] spec = "S" -> t.S
        width == IF spec = "Y" THEN 4 ELSE 2
    IN  CASE pad = "-" -> Digits(value)
          [] pad = "_" -> PadLeft(Digits(value), width, " ")
          [] OTHER -> PadLeft(Digits(value), width, "0")

NumericSpecs == {"Y", "m", "d", "H", "M", "S"}
PadModifiers == {"-", "0", "_"}

\* The mark an invalid item of a format string leaves in the rendering.
FormatError == "<invalid format item>"

RECURSIVE StrftimeItems(_, _)
\* The items of the format string fmt rendered for the civil time t, one
\* after another; an invalid item renders as FormatError.  Covers the
\* specifiers that occur in the modelled format strings.
StrftimeItems(fmt, t) ==
    IF fmt = <<>> THEN <<>>
    ELSE IF Head(fmt) # "%" THEN <<Head(fmt)>> \o StrftimeItems(Tail(fmt), t)
    ELSE IF Tail(fmt) = <<>> THEN <<FormatError>>
    ELSE IF fmt[2] \in NumericSpecs
        THEN NumericItem(fmt[2], "0", t) \o StrftimeItems(SubSeq(fmt, 3, Len(fmt)), t)
    ELSE IF fmt[2] = "%"
        THEN <<"%">> \o StrftimeItems(SubSeq(fmt, 3, Len(fmt)), t)
    ELSE IF fmt[2] \in PadModifiers /\ Len(fmt) >= 3 /\ fmt[3] \in NumericSpecs
        THEN NumericItem(fmt[3], fmt[2], t)
               \o StrftimeItems(SubSeq(fmt, 4, Len(fmt)), t)
    ELSE <<FormatError>>

\* chrono's DateTime::format(fmt) rendered: [ok, out].  ok is FALSE when
\* the format string holds an invalid item; to_string() then panics.
Strftime(fmt, t) ==
    LET items == StrftimeItems(fmt, t)
    IN  IF \E i \in 1..Len(items) : items[i] = FormatError
        THEN [ok |-> FALSE, out |-> <<>>]
        ELSE [ok |-> TRUE, out |-> items]

\* The format strings rotate_logs can build from the modelled package names,
\* rendered once for every instant of the clock.
FormatCache ==
    [fmt \in {pf \o TimestampFormat \o DotLog :
                pf \in {<<>>,
                        <<"d","a","b","l","e","n","u","t","i","l","_">>,
                        <<"%","S","_">>, <<"%","_">>}}
       |-> [n \in 0..MaxTime |-> Strftime(fmt, CivilTime(n))]]

\* create_time.format(fmt): the rendering of instant n under fmt.
Format(n, fmt) ==
    IF fmt \in DOMAIN FormatCache /\ n \in DOMAIN FormatCache[fmt]
    THEN FormatCache[fmt][n]
    ELSE Strftime(fmt, CivilTime(n))

---------------------------------------------------------------------------
(* The file system: a function from the paths that exist to their entries. *)
(* An entry is a directory or a regular file with its content, its         *)
(* creation instant, and whether it is the file the installed logger holds *)
(* open.  The working directory (the empty path) always exists.            *)

Root == <<>>
Parent(p) == SubSeq(p, 1, Len(p) - 1)
Join(p, name) == Append(p, name)

DirEntry == [kind |-> "dir", data |-> <<>>, created |-> 0, open |-> FALSE]
FileEntry(data, t) ==
    [kind |-> "file", data |-> data, created |-> t, open |-> FALSE]

Exists(f, p) == p = Root \/ p \in DOMAIN f
IsDir(f, p) == p = Root \/ (p \in DOMAIN f /\ f[p].kind = "dir")
IsFile(f, p) == p \in DOMAIN f /\ f[p].kind = "file"

\* f with path p bound to entry e.
Put(f, p, e) == [q \in DOMAIN f \cup {p} |-> IF q = p THEN e ELSE f[q]]
\* f without path p.
Remove(f, p) == [q \in DOMAIN f \ {p} |-> f[q]]

\* The error of resolving the parent of p, "none" when it is a directory.
ParentError(f, p) ==
    IF p = Root THEN "NotFound"
    ELSE IF ~Exists(f, Parent(p)) THEN "NotFound"
    ELSE IF ~IsDir(f, Parent(p)) THEN "NotADirectory"
    ELSE "none"

\* mkdir(2).  denied: the operating system refuses the creation.
Mkdir(f, p, denied) ==
    IF Exists(f, p) THEN [fs |-> f, err |-> "AlreadyExists"]
    ELSE IF ParentError(f, p) # "none" THEN [fs |-> f, err |-> ParentError(f, p)]
    ELSE IF denied THEN [fs |-> f, err |-> "PermissionDenied"]
    ELSE [fs |-> Put(f, p, DirEntry), err |-> "none"]

RECURSIVE CreateDirAll(_, _, _)
\* std::fs::create_dir_all: [fs, err], err = "none" on success.
CreateDirAll(f, p, denied) ==
    IF p = Root THEN [fs |-> f, err |-> "none"]
    ELSE
        LET first == Mkdir(f, p, denied)
        IN  IF first.err = "none" THEN first
            ELSE IF first.err # "NotFound" THEN
                IF IsDir(f, p) THEN [fs |-> f, err |-> "none"] ELSE first
            ELSE
                LET up == CreateDirAll(f, Parent(p), denied)
                IN  IF up.err # "none" THEN up
                    ELSE LET second == Mkdir(up.fs, p, denied)
                         IN  IF second.err = "none" \/ ~IsDir(up.fs, p)
                             THEN second
                             ELSE [fs |-> up.fs, err |-> "none"]

\* std::fs::File::create: creates the file or truncates an existing one.
FileCreate(f, p, t, denied) ==
    IF IsDir(f, p) THEN [fs |-> f, err |-> "IsADirectory"]
    ELSE IF ParentError(f, p) # "none" THEN [fs |-> f, err |-> ParentError(f, p)]
    ELSE IF denied THEN [fs |-> f, err |-> "PermissionDenied"]
    ELSE IF IsFile(f, p)
        THEN [fs |-> Put(f, p, [f[p] EXCEPT !.data = <<>>]), err |-> "none"]
        ELSE [fs |-> Put(f, p, FileEntry(<<>>, t)), err |-> "none"]

\* std::fs::read: [data, err].
FileRead(f, p, denied) ==
    IF ~Exists(f, p) THEN [data |-> <<>>, err |-> "NotFound"]
    ELSE IF IsDir(f, p) THEN [data |-> <<>>, err |-> "IsADirectory"]
    ELSE IF denied THEN [data |-> <<>>, err |-> "PermissionDenied"]
    ELSE [data |-> f[p].data, err |-> "none"]

\* std::fs::remove_file.
RemoveFile(f, p, denied) ==
    IF ~Exists(f, p) THEN [fs |-> f, err |-> "NotFound"]
    ELSE IF IsDir(f, p) THEN [fs |-> f, err |-> "IsADirectory"]
    ELSE IF denied THEN [fs |-> f, err |-> "PermissionDenied"]
    ELSE [fs |-> Remove(f, p), err |-> "none"]

\* The gzip stream flate2 writes for `data` under header file name `name`:
\* the magic, the NUL-terminated file name, the data in stored blocks, and the
\* trailer with the data's length (a one-digit stand-in for CRC32 and ISIZE).
GzipHeader(name) == <<"GZ">> \o name \o <<"NUL">>
GzipTrailer(data) == <<DigitChar(Len(data) % 10)>>
Gzip(name, data) == GzipHeader(name) \o data \o GzipTrailer(data)

\* The index of the first "NUL" of bytes, 0 when there is none.
FirstNul(bytes) ==
    LET nuls == {i \in 1..Len(bytes) : bytes[i] = "NUL"}
    IN  IF nuls = {} THEN 0 ELSE CHOOSE i \in nuls : \A j \in nuls : i <= j

\* Decompression: [ok, data]; ok is FALSE for anything but a finished stream.
Gunzip(bytes) ==
    LET nul == FirstNul(bytes)
        payload == SubSeq(bytes, nul + 1, Len(bytes) - 1)
    IN  IF /\ Len(bytes) >= 3
           /\ bytes[1] = "GZ"
           /\ nul # 0
           /\ nul < Len(bytes)
           /\ <<bytes[Len(bytes)]>> = GzipTrailer(payload)
        THEN [ok |-> TRUE, data |-> payload]
        ELSE [ok |-> FALSE, data |-> <<>>]

---------------------------------------------------------------------------
(* The crate's error type and its conversions (lib.rs).                     *)

OkResult == [tag |-> "Ok", io |-> "none"]
\* impl From<io::Error> for Error
FromIoError(e) == [tag |-> "Io", io |-> e]
\* impl From<log::SetLoggerError> for Error
FromSetLoggerError == [tag |-> "Logging", io |-> "none"]
\* The call did not return: the thread panicked.
Panicked == [tag |-> "Panic", io |-> "none"]

\* create_dir_if_not_exists with every error ignored, not only AlreadyExists.
create_dir_ignoring_errors(f, dir, denied) ==
    [fs |-> CreateDirAll(f, dir, denied).fs, res |-> OkResult]

\* create_dir_if_not_exists (lib.rs): [fs, res].
create_dir_if_not_exists(f, dir, denied) ==
    LET r == CreateDirAll(f, dir, denied)
    IN  IF r.err # "none" THEN
            IF r.err = "AlreadyExists" THEN [fs |-> r.fs, res |-> OkResult]
            ELSE [fs |-> r.fs, res |-> FromIoError(r.err)]
        ELSE [fs |-> r.fs, res |-> OkResult]

\* async_create_dir_if_not_exists without the AlreadyExists special case.
async_create_dir_strict(f, dir_path, denied) ==
    LET r == CreateDirAll(f, dir_path, denied)
    IN  IF r.err # "none" THEN [fs |-> r.fs, res |-> FromIoError(r.err)]
        ELSE [fs |-> r.fs, res |-> OkResult]

\* async_create_dir_if_not_exists (tokio.rs): tokio::fs::create_dir_all runs
\* std::fs::create_dir_all on the blocking pool and awaits it.
async_create_dir_if_not_exists(f, dir_path, denied) ==
    LET r == CreateDirAll(f, dir_path, denied)
    IN  IF r.err # "none" THEN
            IF r.err = "AlreadyExists" THEN [fs |-> r.fs, res |-> OkResult]
            ELSE [fs |-> r.fs, res |-> FromIoError(r.err)]
        ELSE [fs |-> r.fs, res |-> OkResult]

---------------------------------------------------------------------------
(* LoggingConfig (logging.rs).                                              *)

\* env!("CARGO_PKG_NAME") of this crate.
CargoPkgName == <<"d","a","b","l","e","n","u","t","i","l">>

\* LoggingConfig::new
LoggingConfigNew(path) ==
    [log_folder |-> path,
     filename |-> LatestLogName,
     term_level_filter |-> "Info",
     file_level_filter |-> "Info",
     package_name |-> CargoPkgName]

\* The fluent setters.
filename(config, name) == [config EXCEPT !.filename = name]
term_level_filter(config, level) == [config EXCEPT !.term_level_filter = level]
file_level_filter(config, level) == [config EXCEPT !.file_level_filter = level]
package_name(config, name) == [config EXCEPT !.package_name = name]

\* The getters.
get_log_folder(config) == config.log_folder
get_filename(config) == config.filename
get_term_level_filter(config) == config.term_level_filter
get_file_level_filter(config) == config.file_level_filter
get_package_name(config) == config.package_name

\* log::LevelFilter, ordered Off < Error < Warn < Info < Debug < Trace.
LevelRank(level) ==
    CASE level = "Off" -> 0 [] level = "Error" -> 1 [] level = "Warn" -> 2
      [] level = "Info" -> 3 [] level = "Debug" -> 4 [] level = "Trace" -> 5

---------------------------------------------------------------------------
(* rotate_logs (logging.rs).  `fault` names the step at which the operating *)
(* system refuses the request ("none": it refuses nothing); `btime` says    *)
(* whether the platform reports a file's creation time.                     *)

RotateFaults ==
    {"none", "mkdir", "metadata", "create", "read", "write", "finish", "remove"}

\* The prefix of the archive name.
ArchivePrefix(config) ==
    LET name == get_package_name(config)
    IN  IF name = <<>> THEN <<>> ELSE name \o Underscore

\* The result of a rotate_logs call: the file system it leaves, the Result,
\* the returned path (of an Ok), and the archive path it wrote to (<<>> when
\* it got to none).
RotateOutcome(f, res, ret, archive) ==
    [fs |-> f, res |-> res, ret |-> ret, archive |-> archive]

\* write_all of `bytes` through a handle at offset 0 of the file at p.
WriteAll(f, p, bytes) ==
    Put(f, p, [f[p] EXCEPT
                 !.data = bytes \o SubSeq(f[p].data, Len(bytes) + 1, Len(f[p].data))])

\* RotateRemove with a rollback: a failed removal deletes the archive again.
RotateRemoveRollingBack(f, latest_log_file, archive_path, fault) ==
    LET removed == RemoveFile(f, latest_log_file, fault = "remove")
    IN  IF removed.err # "none"
        THEN RotateOutcome(Remove(f, archive_path), FromIoError(removed.err),
                           <<>>, archive_path)
        ELSE RotateOutcome(removed.fs, OkResult, latest_log_file, archive_path)

\* Line 243: fs::remove_file(&latest_log_file)?; Ok(latest_log_file)
RotateRemove(f, latest_log_file, archive_path, fault) ==
    LET removed == RemoveFile(f, latest_log_file, fault = "remove")
    IN  IF removed.err # "none"
        THEN RotateOutcome(f, FromIoError(removed.err), <<>>, archive_path)
        ELSE RotateOutcome(removed.fs, OkResult, latest_log_file, archive_path)

\* Lines 237-242: read the log, write it through the gzip encoder, finish.
RotateCompress(f, latest_log_file, archive_path, dated_name, fault) ==
    LET last_log_data == FileRead(f, latest_log_file, fault = "read")
    IN  IF last_log_data.err # "none"
            THEN RotateOutcome(f, FromIoError(last_log_data.err), <<>>, archive_path)
        ELSE IF fault = "write"
            THEN RotateOutcome(f, FromIoError("StorageFull"), <<>>, archive_path)
        ELSE IF fault = "finish"
            THEN RotateOutcome(WriteAll(f, archive_path,
                                        GzipHeader(dated_name) \o last_log_data.data),
                               FromIoError("StorageFull"), <<>>, archive_path)
        ELSE RotateRemove(WriteAll(f, archive_path,
                                   Gzip(dated_name, last_log_data.data)),
                          latest_log_file, archive_path, fault)

\* RotateArchive that refuses to overwrite an archive (create_new).
RotateArchiveCreateNew(f, t, log_folder, latest_log_file, prefix, create_time, fault) ==
    LET rendered == Format(create_time, prefix \o TimestampFormat \o DotLog)
    IN  IF ~rendered.ok THEN RotateOutcome(f, Panicked, <<>>, <<>>)
        ELSE
        LET archive_path == Join(log_folder, rendered.out \o DotGz)
            file_handle == FileCreate(f, archive_path, t, fault = "create")
        IN  IF Exists(f, archive_path)
            THEN RotateOutcome(f, FromIoError("AlreadyExists"), <<>>, <<>>)
            ELSE IF file_handle.err # "none"
            THEN RotateOutcome(f, FromIoError(file_handle.err), <<>>, <<>>)
            ELSE RotateCompress(file_handle.fs, latest_log_file, archive_path,
                                rendered.out, fault)

\* Lines 232-236: the dated name, the archive path, File::create.
RotateArchive(f, t, log_folder, latest_log_file, prefix, create_time, fault) ==
    LET rendered == Format(create_time, prefix \o TimestampFormat \o DotLog)
    IN  IF ~rendered.ok THEN RotateOutcome(f, Panicked, <<>>, <<>>)
        ELSE
        LET archive_path == Join(log_folder, rendered.out \o DotGz)
            file_handle == FileCreate(f, archive_path, t, fault = "create")
        IN  IF file_handle.err # "none"
            THEN RotateOutcome(f, FromIoError(file_handle.err), <<>>, <<>>)
            ELSE RotateCompress(file_handle.fs, latest_log_file, archive_path,
                                rendered.out, fault)

\* rotate_logs that also creates the new, empty log file it returns.
rotate_logs_creating_log_file(f, t, config, fault, btime) ==
    LET log_folder == get_log_folder(config)
        made == create_dir_if_not_exists(f, log_folder, fault = "mkdir")
        latest_log_file == Join(log_folder, LatestLogName)
    IN  IF made.res # OkResult THEN RotateOutcome(made.fs, made.res, <<>>, <<>>)
        ELSE IF ~Exists(made.fs, latest_log_file)
            THEN RotateOutcome(FileCreate(made.fs, latest_log_file, t, FALSE).fs,
                               OkResult, latest_log_file, <<>>)
        ELSE IF fault = "metadata"
            THEN RotateOutcome(made.fs, FromIoError("PermissionDenied"), <<>>, <<>>)
        ELSE RotateArchive(made.fs, t, log_folder, latest_log_file,
                           ArchivePrefix(config),
                           IF btime THEN made.fs[latest_log_file].created ELSE t,
                           fault)

rotate_logs(f, t, config, fault, btime) ==
    LET log_folder == get_log_folder(config)
        made == create_dir_if_not_exists(f, log_folder, fault = "mkdir")
        latest_log_file == Join(log_folder, LatestLogName)
    IN  IF made.res # OkResult THEN RotateOutcome(made.fs, made.res, <<>>, <<>>)
        ELSE IF ~Exists(made.fs, latest_log_file)
            THEN RotateOutcome(made.fs, OkResult, latest_log_file, <<>>)
        ELSE IF fault = "metadata"
            THEN RotateOutcome(made.fs, FromIoError("PermissionDenied"), <<>>, <<>>)
        ELSE RotateArchive(made.fs, t, log_folder, latest_log_file,
                           ArchivePrefix(config),
                           IF btime THEN made.fs[latest_log_file].created ELSE t,
                           fault)

---------------------------------------------------------------------------
(* init_simple_logger (logging.rs) and the process-wide logger of `log`.    *)

NoLogger ==
    [installed |-> FALSE, term_level |-> "Off", file_level |-> "Off", pos |-> 0]

InitFaults == {"none", "mkdir", "create"}

\* The path of the file the installed logger holds open, <<>> when it has
\* been unlinked (or no logger is installed).
OpenFile(f) ==
    IF \E p \in DOMAIN f : f[p].open THEN CHOOSE p \in DOMAIN f : f[p].open
    ELSE <<>>

\* [fs, logger, res]
init_simple_logger(f, t, lg, config, fault) ==
    LET log_path == get_log_folder(config)
        made == IF log_path = Root THEN [fs |-> f, res |-> OkResult]
                ELSE create_dir_if_not_exists(f, Parent(log_path), fault = "mkdir")
        log_file == FileCreate(made.fs, log_path, t, fault = "create")
    IN  IF made.res # OkResult
            THEN [fs |-> made.fs, logger |-> lg, res |-> made.res]
        ELSE IF log_file.err # "none"
            THEN [fs |-> made.fs, logger |-> lg, res |-> FromIoError(log_file.err)]
        ELSE IF lg.installed
            THEN [fs |-> log_file.fs, logger |-> lg, res |-> FromSetLoggerError]
        ELSE [fs |-> Put(log_file.fs, log_path,
                         [log_file.fs[log_path] EXCEPT !.open = TRUE]),
              logger |-> [installed |-> TRUE,
                          term_level |-> get_term_level_filter(config),
                          file_level |-> get_file_level_filter(config),
                          pos |-> 0],
              res |-> OkResult]

RECURSIVE PadRight(_, _, _)
PadRight(s, width, c) ==
    IF Len(s) >= width THEN s ELSE PadRight(Append(s, c), width, c)

\* write(2) of one byte at offset pos of a file holding data.
WriteAt(data, pos, byte) ==
    IF Len(data) <= pos THEN Append(PadRight(data, pos, "NUL"), byte)
    ELSE [data EXCEPT ![pos + 1] = byte]

\* WriteLogger::log: a record of `level` (one byte stands for its line)
\* written through the open file handle when the file sink's filter lets it
\* pass.  [fs, logger]
write_logger_log(f, lg, level) ==
    IF LevelRank(level) > LevelRank(lg.file_level) THEN [fs |-> f, logger |-> lg]
    ELSE
        LET p == OpenFile(f)
            byte == IF level = "Info" THEN "I" ELSE "D"
        IN  [fs |-> IF p = <<>> THEN f
                    ELSE Put(f, p, [f[p] EXCEPT !.data = WriteAt(f[p].data, lg.pos, byte)]),
             logger |-> [lg EXCEPT !.pos = lg.pos + 1]]

---------------------------------------------------------------------------
(* The inputs the operations are called with.                               *)

ConfigLevels == {"Info", "Debug"}
\* The default, none, and names that hold a "%".
PackageNames == {CargoPkgName, <<>>, <<"%", "S">>, <<"%">>}

\* Configurations of the log folder "logs" as the builder makes them: the
\* defaults, another file name, other package names.
RotateConfigs ==
    {LoggingConfigNew(<<LogsName>>),
     filename(LoggingConfigNew(<<LogsName>>), AppLogName)}
      \cup {package_name(LoggingConfigNew(<<LogsName>>), n) : n \in PackageNames}

\* Configurations of a process that installs a logger: built on a folder or
\* on a file in it, with the default level filters or with others.
ProcessConfigs ==
    {LoggingConfigNew(p) : p \in {<<LogsName>>, <<LogsName, LatestLogName>>}}
      \cup {file_level_filter(term_level_filter(
                LoggingConfigNew(<<LogsName, LatestLogName>>), "Debug"), "Debug")}

\* The directories the directory creators are asked for.
DirPaths == {<<LogsName>>, <<LogsName, SubName>>, <<LogsName, SubName, DirName>>}

\* What the caller writes to a log file by hand (the doctest's fs::write).
Contents == {<<"x">>, <<"y">>}

\* The record of the last call: the operation, what it returned (for the
\* directory creators and init_simple_logger, `ret` is the path they were
\* given), the archive it wrote to, and whether the path it was to create
\* (the directory, the archive) was there before the call.
Call(op, res, ret, archive, existed) ==
    [op |-> op, res |-> res, ret |-> ret, archive |-> archive,
     existed |-> existed]

---------------------------------------------------------------------------
(* The state machine.                                                       *)

Init ==
    /\ fs = <<>>
    /\ now = 0
    /\ logger = NoLogger
    /\ last = Call("start", OkResult, <<>>, <<>>, FALSE)
    /\ rotations = 0

\* Time passes.
Tick ==
    /\ now < MaxTime
    /\ now' = now + 1
    /\ UNCHANGED <<fs, logger, last, rotations>>

\* create_dir_if_not_exists(dir)
CreateDir ==
    \E dir \in DirPaths, denied \in BOOLEAN :
        LET r == create_dir_if_not_exists(fs, dir, denied)
        IN  /\ fs' = r.fs
            /\ last' = Call("create_dir", r.res, dir, <<>>, Exists(fs, dir))
            /\ UNCHANGED <<now, logger, rotations>>

\* async_create_dir_if_not_exists(dir_path).await
AsyncCreateDir ==
    \E dir \in DirPaths, denied \in BOOLEAN :
        LET r == async_create_dir_if_not_exists(fs, dir, denied)
        IN  /\ fs' = r.fs
            /\ last' = Call("async_create_dir", r.res, dir, <<>>, Exists(fs, dir))
            /\ UNCHANGED <<now, logger, rotations>>

\* rotate_logs(&config) for a config of `configs` under a fault of `faults`.
\* `rotations` counts the calls that got as far as their archive.
RotateCall(configs, faults) ==
    \E config \in configs, fault \in faults, btime \in BOOLEAN :
        LET r == rotate_logs(fs, now, config, fault, btime)
        IN  /\ r.archive # <<>> => rotations < MaxRotations
            /\ fs' = r.fs
            /\ last' = Call("rotate_logs", r.res, r.ret, r.archive,
                            r.archive # <<>> /\ Exists(fs, r.archive))
            /\ rotations' = IF r.archive # <<>> THEN rotations + 1 ELSE rotations
            /\ UNCHANGED <<now, logger>>

\* rotate_logs in a program that only rotates: any configuration, any fault.
Rotate == RotateCall(RotateConfigs, RotateFaults)

\* rotate_logs in a process that also installs a logger.
RotateInProcess == RotateCall(ProcessConfigs, {"none"})

\* init_simple_logger(&config)
InitLogger ==
    \E config \in ProcessConfigs, fault \in InitFaults :
        LET r == init_simple_logger(fs, now, logger, config, fault)
        IN  /\ fs' = r.fs
            /\ logger' = r.logger
            /\ last' = Call("init_simple_logger", r.res, get_log_folder(config),
                            <<>>, Exists(fs, get_log_folder(config)))
            /\ UNCHANGED <<now, rotations>>

\* log::info!(..) / log::debug!(..) with a logger installed.
Log ==
    \E level \in ConfigLevels :
        LET r == write_logger_log(fs, logger, level)
        IN  /\ logger.installed
            /\ logger.pos < MaxLog
            /\ fs' = r.fs
            /\ logger' = r.logger
            /\ last' = Call("log", OkResult, <<>>, <<>>, FALSE)
            /\ UNCHANGED <<now, rotations>>

\* fs::write(&log_file, data): the caller fills the current log file of the
\* folder, as the doctest of rotate_logs does.
WriteLog ==
    \E data \in Contents :
        LET log_file == Join(<<LogsName>>, LatestLogName)
            created == FileCreate(fs, log_file, now, FALSE)
        IN  /\ created.err = "none"
            /\ fs' = WriteAll(created.fs, log_file, data)
            /\ last' = Call("write", OkResult, log_file, <<>>, Exists(fs, log_file))
            /\ UNCHANGED <<now, logger, rotations>>

\* A process that creates directories, installs the logger, logs and rotates.
Next ==
    \/ Tick
    \/ CreateDir
    \/ AsyncCreateDir
    \/ RotateInProcess
    \/ InitLogger
    \/ Log
    \/ WriteLog

Spec == Init /\ [][Next]_vars

\* A program that writes its log file by hand and rotates it, under every
\* configuration and every fault.
NextRotate ==
    \/ Tick
    \/ WriteLog
    \/ Rotate

SpecRotate == Init /\ [][NextRotate]_vars

---------------------------------------------------------------------------
(* Directory creation: C4, C7 (checked under Spec).                         *)

RECURSIVE Ancestors(_)
\* p and the paths above it, the working directory left out.
Ancestors(p) == IF p = Root THEN {} ELSE {p} \cup Ancestors(Parent(p))

\* C4, as claimed: for every path P that does not exist,
\* create_dir_if_not_exists(P) reports success, afterwards P and all of its
\* ancestors exist, and a second call on P reports success and leaves the
\* file system unchanged.
C4_CreatesEveryMissingPath ==
    \A dir \in DirPaths :
        ~Exists(fs, dir) =>
            LET first == create_dir_if_not_exists(fs, dir, FALSE)
                second == create_dir_if_not_exists(first.fs, dir, FALSE)
            IN  /\ first.res = OkResult
                /\ \A a \in Ancestors(dir) : Exists(first.fs, a)
                /\ second.res = OkResult
                /\ second.fs = first.fs

\* C4, amended: for every path P that does not exist, whenever
\* create_dir_if_not_exists(P) reports success, P and all of its ancestors
\* are directories afterwards, and a second call on P reports success and
\* leaves the file system unchanged; it reports success when no ancestor of
\* P is a regular file and the operating system refuses no creation, and
\* Error::Io otherwise.
C4_CreatesMissingPathUnlessRefused ==
    \A dir \in DirPaths, denied \in BOOLEAN :
        ~Exists(fs, dir) =>
            LET first == create_dir_if_not_exists(fs, dir, denied)
                blocked == denied \/ \E a \in Ancestors(dir) : IsFile(fs, a)
            IN  /\ first.res = OkResult <=> ~blocked
                /\ blocked => first.res.tag = "Io"
                /\ first.res = OkResult =>
                     /\ \A a \in Ancestors(dir) : IsDir(first.fs, a)
                     /\ \A again \in BOOLEAN :
                          LET second == create_dir_if_not_exists(first.fs, dir, again)
                          IN  second.res = OkResult /\ second.fs = first.fs

\* A call created a directory that was missing, two levels down or more.
C4_Witness ==
    /\ last.op = "create_dir"
    /\ ~last.existed
    /\ last.res = OkResult
    /\ Len(last.ret) >= 2
    /\ \A a \in Ancestors(last.ret) : IsDir(fs, a)

\* C7: for every path and every outcome of the recursive creation, the
\* synchronous and the asynchronous creator return the same Result and leave
\* the same directories: Ok when the creation succeeds or fails with
\* AlreadyExists, Error::Io carrying the error otherwise.
C7_SyncAndAsyncAgree ==
    \A dir \in DirPaths \cup {<<LogsName, LatestLogName>>}, denied \in BOOLEAN :
        LET underlying == CreateDirAll(fs, dir, denied)
            sync == create_dir_if_not_exists(fs, dir, denied)
            async == async_create_dir_if_not_exists(fs, dir, denied)
            expected == IF underlying.err \in {"none", "AlreadyExists"}
                        THEN OkResult
                        ELSE [tag |-> "Io", io |-> underlying.err]
        IN  /\ sync.res = expected
            /\ async.res = expected
            /\ sync.fs = underlying.fs
            /\ async.fs = underlying.fs

\* The asynchronous creator was asked for a path that is a regular file: the
\* creation failed with AlreadyExists and the call returned Ok.
C7_Witness ==
    /\ last.op = "async_create_dir"
    /\ last.res = OkResult
    /\ IsFile(fs, last.ret)

---------------------------------------------------------------------------
(* The logger: C1, C10 (checked under Spec).                                *)

\* C1: once init_simple_logger has succeeded, a second call, with any
\* configuration, fails with Error::Logging and alters nothing of the first
\* logger: its level filters are as before, and so is the log file it
\* writes to.
C1_SecondInitLeavesFirstLogger ==
    logger.installed =>
        \A config \in ProcessConfigs :
            LET second == init_simple_logger(fs, now, logger, config, "none")
                log_file == OpenFile(fs)
            IN  /\ second.res = FromSetLoggerError
                /\ second.logger = logger
                /\ log_file # <<>> =>
                     /\ IsFile(second.fs, log_file)
                     /\ second.fs[log_file] = fs[log_file]

\* C10: in a process with no logger installed, after rotate_logs(config)
\* succeeds, init_simple_logger(config) succeeds and creates the log file at
\* the path rotate_logs returned.
C10_InitFollowsRotate ==
    ~logger.installed =>
        \A config \in ProcessConfigs :
            LET rotated == rotate_logs(fs, now, config, "none", TRUE)
                inited == init_simple_logger(rotated.fs, now, logger, config, "none")
            IN  rotated.res = OkResult =>
                    /\ inited.res = OkResult
                    /\ IsFile(inited.fs, rotated.ret)

---------------------------------------------------------------------------
(* Rotation: C2, C3, C5, C8, C9 (checked under SpecRotate), C6 (under Spec). *)

\* "T formatted as %Y-%m-%d_%H-%M-%S" for the instant n.
Timestamp(n) == Strftime(TimestampFormat, CivilTime(n)).out

\* Whether the paths other than p are bound alike in f and g.
SameExcept(f, g, p) ==
    /\ DOMAIN f \ {p} = DOMAIN g \ {p}
    /\ \A q \in DOMAIN f \ {p} : f[q] = g[q]

\* C2: for every LoggingConfig, the current log file of rotate_logs is
\* {log_folder}/{filename}, filename being the configured file name: that is
\* the path it returns, the file it archives when it exists, and the file
\* that is gone afterwards.
C2_RotatesConfiguredFilename ==
    \A config \in RotateConfigs, btime \in BOOLEAN :
        LET r == rotate_logs(fs, now, config, "none", btime)
            current == Join(get_log_folder(config), get_filename(config))
        IN  r.res = OkResult =>
                /\ r.ret = current
                /\ ~Exists(r.fs, current)
                /\ r.archive # <<>> <=> Exists(fs, current)

\* C3: given a non-empty latest.log created at T, a successful rotate_logs
\* produces one new archive, {prefix}{T formatted as %Y-%m-%d_%H-%M-%S}.log.gz
\* in the log folder, whose decompressed content is the content of
\* latest.log, and latest.log no longer exists.
C3_ArchivesUnderTimestampName ==
    \A config \in RotateConfigs :
        LET log_folder == get_log_folder(config)
            latest == Join(log_folder, LatestLogName)
            r == rotate_logs(fs, now, config, "none", TRUE)
            archive == Join(log_folder,
                            ArchivePrefix(config) \o Timestamp(fs[latest].created)
                              \o DotLog \o DotGz)
        IN  (IsFile(fs, latest) /\ fs[latest].data # <<>> /\ r.res = OkResult) =>
                /\ IsFile(r.fs, archive)
                /\ Gunzip(r.fs[archive].data) = [ok |-> TRUE, data |-> fs[latest].data]
                /\ ~Exists(r.fs, latest)
                /\ DOMAIN r.fs \ DOMAIN fs \subseteq {archive}

\* C8: the archive of a rotation is named {timestamp}.log.gz when the
\* package name is empty and {package_name}_{timestamp}.log.gz otherwise.
C8_PrefixIsPackageNameAndUnderscore ==
    \A config \in RotateConfigs :
        LET log_folder == get_log_folder(config)
            latest == Join(log_folder, LatestLogName)
            name == get_package_name(config)
            r == rotate_logs(fs, now, config, "none", TRUE)
        IN  IsFile(fs, latest) =>
                /\ r.res = OkResult
                /\ r.archive =
                     Join(log_folder,
                          (IF name = <<>> THEN <<>> ELSE name \o <<"_">>)
                            \o Timestamp(fs[latest].created) \o DotLog \o DotGz)

\* C5: if rotate_logs fails at a step, it returns Error::Io, performs no
\* later step and rolls nothing back: what is on disk is what the steps up
\* to the failing one left.  A refused directory creation, metadata query or
\* archive creation leaves the disk as it was; a refused read or write
\* leaves the created (or truncated) archive empty; a refused finish leaves
\* an unfinished archive; a refused removal leaves the finished archive and
\* the original latest.log.
C5_FailureLeavesStepsSoFar ==
    \A config \in RotateConfigs, fault \in RotateFaults, btime \in BOOLEAN :
        LET latest == Join(get_log_folder(config), LatestLogName)
            r == rotate_logs(fs, now, config, fault, btime)
            failed == r.res.tag \notin {"Ok", "Panic"}
        IN  /\ (IsFile(fs, latest) /\ fault \notin {"none", "mkdir"}
                  /\ r.res # Panicked) => failed
            /\ failed =>
                 /\ r.res.tag = "Io"
                 /\ fault # "none"
                 /\ r.ret = <<>>
                 /\ fault \in {"mkdir", "metadata", "create"} =>
                      r.fs = fs /\ r.archive = <<>>
                 /\ fault \in {"read", "write", "finish", "remove"} =>
                      /\ IsFile(r.fs, r.archive)
                      /\ SameExcept(r.fs, fs, r.archive)
                      /\ r.fs[latest] = fs[latest]
                 /\ fault \in {"read", "write"} => r.fs[r.archive].data = <<>>
                 /\ fault = "finish" =>
                      /\ r.fs[r.archive].data # <<>>
                      /\ ~Gunzip(r.fs[r.archive].data).ok
                 /\ fault = "remove" =>
                      Gunzip(r.fs[r.archive].data)
                        = [ok |-> TRUE, data |-> fs[latest].data]

\* A rotation failed at the removal: the finished archive and latest.log are
\* both on disk.
C5_Witness ==
    /\ last.op = "rotate_logs"
    /\ last.res.tag = "Io"
    /\ last.archive # <<>>
    /\ IsFile(fs, last.archive)
    /\ Gunzip(fs[last.archive].data).ok
    /\ IsFile(fs, <<LogsName, LatestLogName>>)
    /\ Gunzip(fs[last.archive].data).data = fs[<<LogsName, LatestLogName>>].data

\* C9: when rotate_logs archives a log file whose archive name (package
\* name and creation second) is that of an archive an earlier rotation
\* finished, it reports success and overwrites: the folder holds, under that
\* name, one archive with the second log file's content, and no other file
\* is added.
C9_SameSecondOverwrites ==
    \A config \in RotateConfigs :
        LET log_folder == get_log_folder(config)
            latest == Join(log_folder, LatestLogName)
            r == rotate_logs(fs, now, config, "none", TRUE)
            rendered == Format(fs[latest].created,
                               ArchivePrefix(config) \o TimestampFormat \o DotLog)
            archive == Join(log_folder, rendered.out \o DotGz)
        IN  (/\ IsFile(fs, latest)
             /\ rendered.ok
             /\ IsFile(fs, archive)
             /\ Gunzip(fs[archive].data).ok) =>
                /\ r.res = OkResult
                /\ r.archive = archive
                /\ Gunzip(r.fs[archive].data) = [ok |-> TRUE, data |-> fs[latest].data]
                /\ DOMAIN r.fs = DOMAIN fs \ {latest}
                /\ SameExcept(r.fs, [q \in DOMAIN fs \ {latest} |-> fs[q]], archive)

\* A second successful rotation wrote to an archive that was already there:
\* two rotations reached their archive, and one archive is on disk.
C9_Witness ==
    /\ last.op = "rotate_logs"
    /\ last.res = OkResult
    /\ last.existed
    /\ rotations = 2
    /\ Cardinality({p \in DOMAIN fs : IsFile(fs, p)}) = 1
    /\ Gunzip(fs[last.archive].data).ok

\* Whether the log folder is empty or does not exist.
FolderEmptyOrMissing(f, folder) ==
    \/ ~Exists(f, folder)
    \/ /\ IsDir(f, folder)
       /\ \A p \in DOMAIN f :
            ~(Len(p) > Len(folder) /\ SubSeq(p, 1, Len(folder)) = folder)

\* What C6 says of a successful call: the folder exists, the returned path
\* is {log_folder}/latest.log, no archive and no other file was created, and
\* the log file itself was not created.
RotatedNothing(f, r, folder) ==
    /\ IsDir(r.fs, folder)
    /\ r.ret = Join(folder, LatestLogName)
    /\ r.archive = <<>>
    /\ \A p \in DOMAIN r.fs \ DOMAIN f : r.fs[p].kind = "dir"
    /\ \A p \in DOMAIN f : p \in DOMAIN r.fs /\ r.fs[p] = f[p]
    /\ ~Exists(r.fs, r.ret)

===========================================================================
